---- MODULE Spec2Model ----
(***************************************************************************)
(* vmbuild (src/vmbuild/vmbuild.cpp): builds a bootable disk image from a  *)
(* 512-byte boot sector and an ELF service binary.  main() is a single     *)
(* linear pass; the model follows it statement block by statement block    *)
(* (pc), with the files, the disk buffer and the output image kept at the  *)
(* byte level.  32- and 64-bit words are kept as little-endian byte        *)
(* sequences, so that C arithmetic modulo 2^32 is computed with carries    *)
(* instead of overflowing the checker's integers.  INFO() logging is not   *)
(* modelled: it changes no state the build depends on.  assert() is        *)
(* modelled as compiled in (the file defines no NDEBUG).                   *)
(***************************************************************************)
EXTENDS Integers, Sequences, FiniteSets, TLC

(***************************************************************************)
(* Bounds of the model.                                                    *)
(***************************************************************************)
\* service binaries of up to MaxSectors full sectors (plus one byte)
MaxSectors == 2
\* argc ranges over 1..MaxArgc
MaxArgc == 4
\* length of a read that stops early (inside the service's ELF header)
PartialRead == 40

(***************************************************************************)
(* Program constants.                                                      *)
(***************************************************************************)
SECT_SIZE == 512
bootvar_binary_size == 4
bootvar_binary_location == 8

\* api/util/elf.h
EI_MAG0 == 0
EI_CLASS == 4
ELFCLASS32 == 1
ELFCLASS64 == 2
ELFMAG == <<127, 69, 76, 70>>
Elf32_Ehdr_size == 52
Elf32_Shdr_size == 40
Elf64_Ehdr_size == 64
e_entry_off == 24
e_shoff_off32 == 32
e_shnum_off32 == 48
e_shstrndx_off32 == 50
sh_offset_off32 == 16

(***************************************************************************)
(* Bytes and words.                                                        *)
(***************************************************************************)
Zeros(n) == [i \in 1..n |-> 0]

\* buf[off], buf being a char array indexed from 0
At(buf, off) == buf[off + 1]

\* the n bytes of buf from offset off
Bytes(buf, off, n) == [i \in 1..n |-> buf[off + i]]

\* memcpy(buf + off, bs, Len(bs))
Store(buf, off, bs) ==
  [i \in 1..Len(buf) |->
     IF i > off /\ i <= off + Len(bs) THEN bs[i - off] ELSE buf[i]]

\* a non-negative integer converted to a 32-bit int, as stored little-endian
ToLE32(n) ==
  <<n % 256, (n \div 256) % 256, (n \div 65536) % 256, (n \div 16777216) % 256>>

\* a 16-bit half word, little-endian
ToLE16(n) == <<n % 256, (n \div 256) % 256>>

\* a word given as 16-bit limbs (least significant first), little-endian
LimbsToBytes(ls) == [i \in 1..(2 * Len(ls)) |-> ToLE16(ls[(i + 1) \div 2])[2 - (i % 2)]]

\* little-endian reads of small unsigned fields
Read16(buf, off) == At(buf, off) + 256 * At(buf, off + 1)
Read32(buf, off) ==
  At(buf, off) + 256 * At(buf, off + 1) + 65536 * At(buf, off + 2)
    + 16777216 * At(buf, off + 3)

\* uint32_t addition: a + b modulo 2^32, on little-endian bytes
Add32(a, b) ==
  LET s1 == a[1] + b[1]
      s2 == a[2] + b[2] + (s1 \div 256)
      s3 == a[3] + b[3] + (s2 \div 256)
      s4 == a[4] + b[4] + (s3 \div 256)
  IN  <<s1 % 256, s2 % 256, s3 % 256, s4 % 256>>

\* api/boot/multiboot.h: 0x1BADB002
MULTIBOOT_HEADER_MAGIC == 464367618

RECURSIVE BitAnd(_, _)
\* a & b on non-negative integers
BitAnd(a, b) ==
  IF a = 0 \/ b = 0 THEN 0
  ELSE (IF a % 2 = 1 /\ b % 2 = 1 THEN 1 ELSE 0) + 2 * BitAnd(a \div 2, b \div 2)

(***************************************************************************)
(* The input files.  A file is described by a small record and its bytes   *)
(* are laid out from it: the boot sector is opaque, the service binary is  *)
(* an ELF32 image with a section table, an ELF64 image, an ELF image of an *)
(* unknown class, or raw bytes.                                            *)
(***************************************************************************)
\* filler for the part of a file no header describes (never zero)
Filler(i) == 1 + (i % 251)

\* base extended with filler, or cut, to exactly size bytes
Sized(base, size) ==
  [i \in 1..size |-> IF i <= Len(base) THEN base[i] ELSE Filler(i - 1)]

\* the bytes of the boot sector file
BootFile(b) == [i \in 1..b.size |-> (b.seed * (7 * i + 5)) % 256]

\* e_ident
Ident(cls) == ELFMAG \o <<cls, 1, 1>> \o Zeros(9)

\* section names, as C strings without the terminator
NameMultiboot == <<46, 109, 117, 108, 116, 105, 98, 111, 111, 116>>
NameOther     == <<46, 109, 117, 108, 116, 105, 98, 111, 111, 109>>
NameShstrtab  == <<46, 115, 104, 115, 116, 114, 116, 97, 98>>

\* the multiboot headers the service binaries carry: 16-bit limbs, low first
MbTable ==
  << [magic |-> <<45058, 7085>>,  flags |-> <<0, 0>>,         checksum |-> <<20478, 58450>>],
     [magic |-> <<45058, 7085>>,  flags |-> <<3, 1>>,         checksum |-> <<20475, 58449>>],
     [magic |-> <<45058, 7085>>,  flags |-> <<65535, 65535>>, checksum |-> <<20479, 58450>>],
     [magic |-> <<45058, 7085>>,  flags |-> <<3, 0>>,         checksum |-> <<20478, 58450>>],
     [magic |-> <<45058, 11181>>, flags |-> <<0, 0>>,         checksum |-> <<20478, 54354>>],
     [magic |-> <<45058, 7085>>,  flags |-> <<0, 0>>,         checksum |-> <<20478, 58451>>] >>

\* struct multiboot_header: eight 4-byte fields
MbHeaderBytes(m) ==
  LimbsToBytes(m.magic) \o LimbsToBytes(m.flags) \o LimbsToBytes(m.checksum)
    \o ToLE32(1048576) \o ToLE32(1048576) \o ToLE32(0) \o ToLE32(0)
    \o ToLE32(1048608)

Shdr32(name, type, offset, size) ==
  ToLE32(name) \o ToLE32(type) \o ToLE32(0) \o ToLE32(0) \o ToLE32(offset)
    \o ToLE32(size) \o Zeros(16)

\* Elf32_Ehdr: the section table follows the section data
Ehdr32(entry, shoff, shnum, shstrndx) ==
  Ident(ELFCLASS32) \o ToLE16(2) \o ToLE16(3) \o ToLE32(1)
    \o LimbsToBytes(entry) \o ToLE32(0) \o ToLE32(shoff) \o ToLE32(0)
    \o ToLE16(Elf32_Ehdr_size) \o ToLE16(0) \o ToLE16(0)
    \o ToLE16(Elf32_Shdr_size) \o ToLE16(shnum) \o ToLE16(shstrndx)

\* an ELF32 executable: header, one 32-byte section, the section name
\* table, and three section headers (null, the section, .shstrtab)
Elf32Base(s) ==
  LET data    == MbHeaderBytes(MbTable[s.mb])
      dataoff == Elf32_Ehdr_size
      name    == IF s.hasMB THEN NameMultiboot ELSE NameOther
      strtab  == <<0>> \o name \o <<0>> \o NameShstrtab \o <<0>>
      stroff  == dataoff + Len(data)
      shoff   == stroff + Len(strtab) + 2
  IN  Ehdr32(SubSeq(s.entry, 1, 2), shoff, 3, 2) \o data \o strtab \o <<0, 0>>
        \o Zeros(Elf32_Shdr_size)
        \o Shdr32(1, 1, dataoff, Len(data))
        \o Shdr32(2 + Len(name), 3, stroff, Len(strtab))

\* Elf64_Ehdr
Ehdr64(cls, entry) ==
  Ident(cls) \o ToLE16(2) \o ToLE16(62) \o ToLE32(1) \o LimbsToBytes(entry)
    \o Zeros(8) \o Zeros(8) \o ToLE32(0) \o ToLE16(Elf64_Ehdr_size)
    \o Zeros(10)

\* the bytes of the service binary file
ServiceFile(s) ==
  CASE s.kind = "elf32" -> Sized(Elf32Base(s), s.size)
    [] s.kind = "elf64" -> Sized(Ehdr64(ELFCLASS64, s.entry), s.size)
    [] s.kind = "elfx"  -> Sized(Ehdr64(3, s.entry), s.size)
    [] OTHER            -> Sized(<<>>, s.size)

(***************************************************************************)
(* The program's pure computations.                                        *)
(***************************************************************************)
\* get_bootloader_path: the path is a sequence of components
get_bootloader_path(n, arg2, install, home) ==
  IF n = 2
    THEN (IF install # "" THEN <<install>> ELSE <<home, "IncludeOS_install">>)
           \o <<"bootloader">>
    ELSE <<arg2>>

\* main: "Verify proper command usage"
UsageOK(n) == ~(n <= 2)

\* main: test = true only for argv[3] == "-test"
TestFlag(n, arg3) == n > 3 /\ arg3 = "-test"

\* a bug: only a boot sector that is too large is refused
BootSizeOK_AtMost(st_size) == st_size <= SECT_SIZE

\* main: stat_boot.st_size != SECT_SIZE is fatal
BootSizeOK(st_size) == st_size = SECT_SIZE

\* a bug: the partial last sector is not counted
BinarySectors_Floor(st_size) == st_size \div SECT_SIZE

\* main: binary_sectors
BinarySectors(st_size) ==
  (st_size \div SECT_SIZE)
    + (IF BitAnd(st_size, SECT_SIZE - 1) # 0 THEN 1 ELSE 0)

\* a bug: the boot sector is not counted
ImgSizeSect_NoBoot(sectors) == sectors

\* main: img_size_sect
ImgSizeSect(sectors) == 1 + sectors

\* main: img_size_bytes
ImgSizeBytes(sectors) == ImgSizeSect(sectors) * SECT_SIZE

\* ifstream::read(dst, n): the first got bytes of the file arrive at dst
ReadInto(buf, off, file, got) == Store(buf, off, SubSeq(file, 1, got))

\* main: "only accept ELF binaries"
ElfMagicOK(mem) == \A k \in 0..3 : At(mem, EI_MAG0 + k) = ELFMAG[k + 1]

\* Elf_binary<Elf32>::section_header(name): the offset of the first section
\* header whose name is the given string, or -1 (the lookup throws)
SectionHeader(mem, name) ==
  LET shoff  == Read32(mem, e_shoff_off32)
      shnum  == Read16(mem, e_shnum_off32)
      strndx == Read16(mem, e_shstrndx_off32)
      hdr(k) == shoff + k * Elf32_Shdr_size
      inside(off, n) == off >= 0 /\ off + n <= Len(mem)
      stroff == IF strndx < shnum /\ inside(hdr(strndx), Elf32_Shdr_size)
                  THEN Read32(mem, hdr(strndx) + sh_offset_off32) ELSE -1
      named(k) ==
        /\ stroff >= 0
        /\ inside(hdr(k), Elf32_Shdr_size)
        /\ LET at == stroff + Read32(mem, hdr(k))
           IN  /\ inside(at, Len(name) + 1)
               /\ Bytes(mem, at, Len(name)) = name
               /\ At(mem, at + Len(name)) = 0
      hits == {k \in 0..(shnum - 1) : named(k)}
  IN  IF hits = {} THEN -1
      ELSE hdr(CHOOSE k \in hits : \A j \in hits : k <= j)

\* Elf_binary<Elf32>::section_data(sh).data(): where the section's bytes are
SectionData(mem, sh) == Read32(mem, sh + sh_offset_off32)

\* main: assert(multiboot.magic == MULTIBOOT_HEADER_MAGIC)
MultibootMagicOK(mem, mb) == Bytes(mem, mb, 4) = ToLE32(MULTIBOOT_HEADER_MAGIC)

\* a bug: the flags are left out of the sum
MultibootChecksumOK_NoFlags(mem, mb) ==
  Add32(Bytes(mem, mb + 8, 4), Bytes(mem, mb, 4)) = ToLE32(0)

\* main: assert(multiboot.checksum + multiboot.flags + multiboot.magic == 0)
MultibootChecksumOK(mem, mb) ==
  Add32(Add32(Bytes(mem, mb + 8, 4), Bytes(mem, mb + 4, 4)), Bytes(mem, mb, 4))
    = ToLE32(0)

\* Elf_binary<Elf32>::entry(): e_entry of the Elf32_Ehdr
Entry32(mem) == Bytes(mem, e_entry_off, 4)

\* a bug: the high half of the 64-bit entry point is kept
Entry64_High(mem) == SubSeq(Bytes(mem, e_entry_off, 8), 5, 8)

\* main: (uint32_t) hdr->e_entry of the Elf64_Ehdr
Entry64(mem) == SubSeq(Bytes(mem, e_entry_off, 8), 1, 4)

\* a bug: the entry point is written one field further
Patch_Misplaced(buf, sectors, entry) ==
  Store(Store(buf, bootvar_binary_size, ToLE32(sectors)),
        bootvar_binary_location + 4, entry)

\* main: "Write binary size and entry point to the bootloader"
Patch(buf, sectors, entry) ==
  Store(Store(buf, bootvar_binary_size, ToLE32(sectors)),
        bootvar_binary_location, entry)

\* a bug: the loop stops one byte early
TestFill_Short(buf, img_size_bytes) ==
  [k \in 1..Len(buf) |->
     IF k - 1 >= 512 /\ (k - 1) - 512 < img_size_bytes - 512 - 1
       THEN ((k - 1) - 512) % 256
       ELSE buf[k]]

\* main: "TEST overwriting service with testdata"
\* (i % 256 converted to char: the byte stored is i modulo 256)
TestFill(buf, img_size_bytes) ==
  [k \in 1..Len(buf) |->
     IF k - 1 >= 512 /\ (k - 1) - 512 < img_size_bytes - 512
       THEN ((k - 1) - 512) % 256
       ELSE buf[k]]

(***************************************************************************)
(* Inputs: the command line, the environment and the two files.            *)
(***************************************************************************)
Args ==
  {a \in [argc : 1..MaxArgc, argv3 : {"", "-test", "-v"},
          install : {"", "/opt/includeos"}] :
     /\ (a.argv3 = "") <=> (a.argc <= 3)
     /\ (a.install # "") => (a.argc = 2)}

BootFiles ==
  {[exists |-> FALSE, size |-> 0, seed |-> 0]}
    \cup {[exists |-> TRUE, size |-> SECT_SIZE, seed |-> sd] : sd \in {0, 1}}
    \cup {[exists |-> TRUE, size |-> z, seed |-> 1] :
            z \in {SECT_SIZE - 1, SECT_SIZE + 1}}

\* file sizes: the smallest, a whole number of sectors, and one byte more
SvcSizes(min) == {min, MaxSectors * SECT_SIZE, MaxSectors * SECT_SIZE + 1}

NoEntry == <<0, 0, 0, 0>>
\* the size of the smallest ELF32 service binary
Elf32Size == Len(Elf32Base([entry |-> NoEntry, hasMB |-> TRUE, mb |-> 1]))
\* entry points as 16-bit limbs, low first: 0x00100000 and 0xFFFFFFFF
Entries32 == {<<0, 16, 0, 0>>, <<65535, 65535, 0, 0>>}
\* 0x00100000, 0x0000000100201000 and 0xFFFFFFFFC0002000
Entries64 == {<<0, 16, 0, 0>>, <<4096, 32, 1, 0>>, <<8192, 49152, 65535, 65535>>}

ServiceFiles ==
  {[exists |-> FALSE, kind |-> "raw", size |-> 0, entry |-> NoEntry,
    hasMB |-> FALSE, mb |-> 1]}
    \cup {[exists |-> TRUE, kind |-> "elf32", size |-> z, entry |-> e,
           hasMB |-> TRUE, mb |-> m] :
            z \in SvcSizes(Elf32Size), e \in Entries32, m \in 1..Len(MbTable)}
    \cup {[exists |-> TRUE, kind |-> "elf32", size |-> z, entry |-> e,
           hasMB |-> FALSE, mb |-> 1] :
            z \in SvcSizes(Elf32Size), e \in Entries32}
    \cup {[exists |-> TRUE, kind |-> "elf64", size |-> z, entry |-> e,
           hasMB |-> FALSE, mb |-> 1] :
            z \in SvcSizes(Elf64_Ehdr_size), e \in Entries64}
    \cup {[exists |-> TRUE, kind |-> "elfx", size |-> Elf64_Ehdr_size,
           entry |-> <<0, 16, 0, 0>>, hasMB |-> FALSE, mb |-> 1]}
    \cup {[exists |-> TRUE, kind |-> "raw", size |-> z, entry |-> NoEntry,
           hasMB |-> FALSE, mb |-> 1] :
            z \in {0, 3, MaxSectors * SECT_SIZE + 1}}

\* what a read of size bytes may deliver: all of it, nothing (the stream
\* failed to open), or a prefix
ReadOutcomes(size) ==
  {size, 0} \cup (IF size > PartialRead THEN {PartialRead} ELSE {})

\* what fwrite of size bytes may return: all of it, or less
WriteOutcomes(size) == {size, size - SECT_SIZE}

\* what lies behind the end of the disk buffer, where binary_imgloc points
\* when the service binary is empty: not determined by the program
Garbage ==
  {Zeros(Elf64_Ehdr_size), Ehdr64(ELFCLASS64, <<0, 16, 0, 0>>),
   Ehdr64(3, NoEntry), Ehdr32(<<0, 16>>, 0, 0, 0) \o Zeros(12)}

(***************************************************************************)
(* State.                                                                  *)
(***************************************************************************)
VARIABLES
  args,             \* argc, argv[3] and INCLUDEOS_INSTALL
  boot,             \* the file at the bootloader path
  svc,              \* the file at the service binary path
  pc,               \* position in main, or how the process ended
  rc,               \* exit status
  test,             \* static bool test
  bootloader_path,
  stat_boot,        \* stat_boot.st_size
  stat_binary,      \* stat_binary.st_size
  binary_sectors,
  disk_size,        \* img_size_bytes
  disk,             \* vector<char> disk
  read_boot,        \* read_bytes after the boot loader was read
  read_binary,      \* read_bytes after the service was read
  found,            \* the branch the format inspection took
  image,            \* FILE* image: "none", "null", "open" or "closed"
  img_file,         \* the output file: NoFile, or its bytes
  wrote             \* the value fwrite returned

vars ==
  <<args, boot, svc, pc, rc, test, bootloader_path, stat_boot, stat_binary,
    binary_sectors, disk_size, disk, read_boot, read_binary, found, image,
    img_file, wrote>>

NoFile == <<-1>>

inputs == <<args, boot, svc>>

Init ==
  /\ args \in Args
  /\ boot \in BootFiles
  /\ svc \in ServiceFiles
  /\ pc = "main"
  /\ rc = "running"
  /\ test = FALSE
  /\ bootloader_path = <<>>
  /\ stat_boot = -1
  /\ stat_binary = -1
  /\ binary_sectors = 0
  /\ disk_size = 0
  /\ disk = <<>>
  /\ read_boot = -1
  /\ read_binary = -1
  /\ found = "nothing"
  /\ image = "none"
  /\ img_file = NoFile
  /\ wrote = -1

\* the process ends: how is "exited" (return or exit), "aborted"
\* (std::terminate or a failed assert) or "crashed"
End(how, status) == pc' = how /\ rc' = status

(***************************************************************************)
(* main, block by block.                                                   *)
(***************************************************************************)
\* usage check, bootloader path, -test flag
ParseArgs ==
  /\ pc = "main"
  /\ IF ~UsageOK(args.argc)
       THEN /\ End("exited", "EXIT_FAILURE")
            /\ UNCHANGED <<test, bootloader_path>>
       ELSE /\ bootloader_path' =
                 get_bootloader_path(args.argc, "argv[2]", args.install, "HOME")
            /\ test' = TestFlag(args.argc, args.argv3)
            /\ pc' = "stat_boot"
            /\ UNCHANGED rc
  /\ UNCHANGED <<inputs, stat_boot, stat_binary, binary_sectors, disk_size,
                 disk, read_boot, read_binary, found, image, img_file, wrote>>

\* "Validate boot loader"
StatBoot ==
  /\ pc = "stat_boot"
  /\ IF ~boot.exists
       THEN End("exited", "errno") /\ UNCHANGED stat_boot
       ELSE /\ stat_boot' = boot.size
            /\ IF ~BootSizeOK(boot.size)
                 THEN End("exited", "SECT_SIZE_ERR")
                 ELSE pc' = "stat_binary" /\ UNCHANGED rc
  /\ UNCHANGED <<inputs, test, bootloader_path, stat_binary, binary_sectors,
                 disk_size, disk, read_boot, read_binary, found, image,
                 img_file, wrote>>

\* "Validate service binary location", the image's size, the disk buffer
StatBinary ==
  /\ pc = "stat_binary"
  /\ IF ~svc.exists
       THEN /\ End("exited", "errno")
            /\ UNCHANGED <<stat_binary, binary_sectors, disk_size, disk>>
       ELSE /\ stat_binary' = svc.size
            /\ binary_sectors' = BinarySectors(svc.size)
            /\ disk_size' = ImgSizeBytes(binary_sectors')
            /\ IF BitAnd(disk_size', SECT_SIZE - 1) # 0
                 THEN End("aborted", "SIGABRT") /\ UNCHANGED disk
                 ELSE /\ disk' = Zeros(disk_size')
                      /\ pc' = "load_boot"
                      /\ UNCHANGED rc
  /\ UNCHANGED <<inputs, test, bootloader_path, stat_boot, read_boot,
                 read_binary, found, image, img_file, wrote>>

\* "Load the boot loader into memory": the count read is only logged
LoadBoot ==
  /\ pc = "load_boot"
  /\ \E got \in ReadOutcomes(stat_boot) :
       /\ read_boot' = got
       /\ disk' = ReadInto(disk, 0, BootFile(boot), got)
  /\ pc' = "load_binary"
  /\ UNCHANGED <<inputs, rc, test, bootloader_path, stat_boot, stat_binary,
                 binary_sectors, disk_size, read_binary, found, image,
                 img_file, wrote>>

\* "Load the service into memory", at binary_imgloc = disk_head + SECT_SIZE
LoadBinary ==
  /\ pc = "load_binary"
  /\ \E got \in ReadOutcomes(stat_binary) :
       /\ read_binary' = got
       /\ disk' = ReadInto(disk, SECT_SIZE, ServiceFile(svc), got)
  /\ pc' = "inspect"
  /\ UNCHANGED <<inputs, rc, test, bootloader_path, stat_boot, stat_binary,
                 binary_sectors, disk_size, read_boot, found, image,
                 img_file, wrote>>

\* the branch main takes on the memory at binary_imgloc
Inspection(mem) ==
  IF ~ElfMagicOK(mem) THEN "not ELF"
  ELSE IF At(mem, EI_CLASS) = ELFCLASS32
    THEN LET sh == SectionHeader(mem, NameMultiboot)
         IN  IF sh = -1 THEN "no .multiboot"
             ELSE IF ~MultibootMagicOK(mem, SectionData(mem, sh))
               THEN "multiboot magic"
             ELSE IF ~MultibootChecksumOK(mem, SectionData(mem, sh))
               THEN "multiboot checksum"
             ELSE "ELF32"
  ELSE IF At(mem, EI_CLASS) = ELFCLASS64 THEN "ELF64"
  ELSE "unknown ELF"

\* "only accept ELF binaries": verify, then patch the boot sector.  With an
\* empty service binary the buffer ends at binary_imgloc and the reads go
\* past it.
Inspect ==
  /\ pc = "inspect"
  /\ \E g \in (IF Len(disk) > SECT_SIZE THEN {<<>>} ELSE Garbage) :
       LET mem == SubSeq(disk, SECT_SIZE + 1, Len(disk)) \o g
       IN  /\ found' = Inspection(mem)
           /\ CASE found' = "ELF32" ->
                     /\ disk' = Patch(disk, binary_sectors, Entry32(mem))
                     /\ pc' = "test"
                     /\ UNCHANGED rc
                [] found' = "ELF64" ->
                     /\ disk' = Patch(disk, binary_sectors, Entry64(mem))
                     /\ pc' = "test"
                     /\ UNCHANGED rc
                [] OTHER ->
                     /\ End("aborted", "SIGABRT")
                     /\ UNCHANGED disk
  /\ UNCHANGED <<inputs, test, bootloader_path, stat_boot, stat_binary,
                 binary_sectors, disk_size, read_boot, read_binary, image,
                 img_file, wrote>>

\* if (test): overwrite the service with test data
TestMode ==
  /\ pc = "test"
  /\ disk' = IF test THEN TestFill(disk, disk_size) ELSE disk
  /\ pc' = "fopen"
  /\ UNCHANGED <<inputs, rc, test, bootloader_path, stat_boot, stat_binary,
                 binary_sectors, disk_size, read_boot, read_binary, found,
                 image, img_file, wrote>>

\* fopen(img_name, "w"): creates or truncates the file, or returns NULL
OpenImage ==
  /\ pc = "fopen"
  /\ \/ image' = "open" /\ img_file' = <<>>
     \/ image' = "null" /\ UNCHANGED img_file
  /\ pc' = "fwrite"
  /\ UNCHANGED <<inputs, rc, test, bootloader_path, stat_boot, stat_binary,
                 binary_sectors, disk_size, disk, read_boot, read_binary,
                 found, wrote>>

\* fwrite(disk_head, 1, disk_size, image): the result is only logged.  On a
\* NULL stream the behaviour is undefined: the process crashes or goes on.
WriteImage ==
  /\ pc = "fwrite"
  /\ \/ /\ image = "open"
        /\ \E n \in WriteOutcomes(disk_size) :
             /\ wrote' = n
             /\ img_file' = SubSeq(disk, 1, n)
        /\ pc' = "fclose"
        /\ UNCHANGED rc
     \/ /\ image = "null"
        /\ wrote' = 0
        /\ pc' = "fclose"
        /\ UNCHANGED <<rc, img_file>>
     \/ /\ image = "null"
        /\ End("crashed", "SIGSEGV")
        /\ UNCHANGED <<wrote, img_file>>
  /\ UNCHANGED <<inputs, test, bootloader_path, stat_boot, stat_binary,
                 binary_sectors, disk_size, disk, read_boot, read_binary,
                 found, image>>

\* fclose(image) and the end of main
CloseImage ==
  /\ pc = "fclose"
  /\ \/ /\ image = "open"
        /\ image' = "closed"
        /\ End("done", "0")
     \/ /\ image = "null"
        /\ End("done", "0")
        /\ UNCHANGED image
     \/ /\ image = "null"
        /\ End("crashed", "SIGSEGV")
        /\ UNCHANGED image
  /\ UNCHANGED <<inputs, test, bootloader_path, stat_boot, stat_binary,
                 binary_sectors, disk_size, disk, read_boot, read_binary,
                 found, img_file, wrote>>

Next ==
  \/ ParseArgs
  \/ StatBoot
  \/ StatBinary
  \/ LoadBoot
  \/ LoadBinary
  \/ Inspect
  \/ TestMode
  \/ OpenImage
  \/ WriteImage
  \/ CloseImage

Spec == Init /\ [][Next]_vars

(***************************************************************************)
(* The claims.                                                             *)
(***************************************************************************)
\* ceil(S / 512)
CeilSectors(S) == (S + 511) \div 512

\* the size the image must have for a service binary of S bytes
ExpectedSize(S) == 512 * (1 + CeilSectors(S))

\* main has reached the patch and write steps
WritePhase == pc \in {"test", "fopen", "fwrite", "fclose", "done", "crashed"}

\* a build that ended with status 0 after every transfer was complete: both
\* files were read in full and the whole buffer was written
CompleteBuild ==
  /\ pc = "done"
  /\ image = "closed"
  /\ read_boot = stat_boot
  /\ read_binary = stat_binary
  /\ wrote = disk_size

\* the multiboot invariants, on 16-bit limbs: magic is 0x1BADB002 and
\* magic + flags + checksum is 0 modulo 2^32
MbValid(m) ==
  LET lo == m.magic[1] + m.flags[1] + m.checksum[1]
      hi == m.magic[2] + m.flags[2] + m.checksum[2] + (lo \div 65536)
  IN  /\ m.magic = <<45058, 7085>>
      /\ lo % 65536 = 0
      /\ hi % 65536 = 0

\* a service binary (not empty) that must be refused: no ELF magic, an
\* unknown class, no .multiboot section, or a bad multiboot header
ServiceBad(s) ==
  /\ s.exists
  /\ s.size > 0
  /\ \/ s.kind \in {"raw", "elfx"}
     \/ s.kind = "elf32" /\ (~s.hasMB \/ ~MbValid(MbTable[s.mb]))

FormatErrors ==
  {"not ELF", "unknown ELF", "no .multiboot", "multiboot magic",
   "multiboot checksum"}

\* C1: a boot sector that is not 512 bytes, or a service binary that fails
\* the ELF magic, class, .multiboot section or multiboot magic/checksum
\* check, ends the build (exit status SECT_SIZE_ERR, or an abort) and the
\* output file is never opened, created or written: all validation comes
\* before the first byte of output.
C1_ValidationBeforeOutput ==
  /\ (boot.size # 512 /\ stat_boot # -1)
       => (pc = "exited" /\ rc = "SECT_SIZE_ERR")
  /\ (found \in FormatErrors) => pc = "aborted"
  /\ (ServiceBad(svc) /\ found # "nothing") => found \in FormatErrors
  /\ ((boot.exists /\ boot.size # 512) \/ found \in FormatErrors \/ ServiceBad(svc))
       => (~WritePhase /\ image = "none" /\ img_file = NoFile /\ wrote = -1)

C1_Witness ==
  /\ boot.size = 512
  /\ svc.kind = "elf32" /\ svc.hasMB
  /\ found = "multiboot checksum"
  /\ pc = "aborted"
  /\ img_file = NoFile

\* C2: the assembled image is 512 * (1 + ceil(S/512)) bytes, a multiple of
\* 512, for every service binary of size S (the boot sector being 512
\* bytes); that many bytes are handed to fwrite, and the written file has
\* that size when fwrite returns the count it was given.
C2_ImageSize ==
  /\ (stat_binary >= 0 /\ pc # "exited") =>
       /\ stat_boot = 512
       /\ disk_size = ExpectedSize(svc.size)
       /\ Len(disk) = ExpectedSize(svc.size)
       /\ Len(disk) % 512 = 0
  /\ (wrote # -1 /\ image # "null" /\ wrote = disk_size) =>
       Len(img_file) = ExpectedSize(svc.size)

C2_Witness ==
  /\ pc = "done"
  /\ svc.size = 1025
  /\ wrote = 2048
  /\ Len(img_file) = 2048

\* C3: in every successful build, ELF32 or ELF64, the 4-byte field at
\* offset 4 of the image is ceil(S/512), the image's sector count minus one.
C3_SectorCountField ==
  /\ WritePhase => Read32(disk, 4) = CeilSectors(svc.size)
  /\ CompleteBuild =>
       /\ found \in {"ELF32", "ELF64"}
       /\ Read32(img_file, 4) = CeilSectors(svc.size)
       /\ Read32(img_file, 4) = (Len(img_file) \div 512) - 1

C3_Witness ==
  /\ CompleteBuild
  /\ found = "ELF32"
  /\ svc.size = 1025
  /\ Read32(img_file, 4) = 3

\* C4: in every successful build the 4-byte field at offset 8 of the image
\* is the service binary's entry point: e_entry for an ELF32 binary, e_entry
\* modulo 2^32 for an ELF64 binary.
C4_EntryPointField ==
  (CompleteBuild /\ svc.kind \in {"elf32", "elf64"}) =>
    /\ found = (IF svc.kind = "elf32" THEN "ELF32" ELSE "ELF64")
    /\ Read16(img_file, 8) = svc.entry[1]
    /\ Read16(img_file, 10) = svc.entry[2]

C4_Witness ==
  /\ CompleteBuild
  /\ svc.kind = "elf64"
  /\ svc.entry = <<8192, 49152, 65535, 65535>>
  /\ Bytes(img_file, 8, 4) = <<0, 32, 0, 192>>

\* C5: in every successful build without test mode the image is the boot
\* sector, changed only in the two 4-byte fields at offsets 4 and 8,
\* followed by the service binary and then zeros to the end.
C5_Layout ==
  (CompleteBuild /\ ~test) =>
    /\ \A i \in (0..3) \cup (12..511) :
         At(img_file, i) = At(BootFile(boot), i)
    /\ \A i \in 0..(svc.size - 1) :
         At(img_file, 512 + i) = At(ServiceFile(svc), i)
    /\ \A i \in (512 + svc.size)..(Len(img_file) - 1) : At(img_file, i) = 0

C5_Witness ==
  /\ CompleteBuild
  /\ ~test
  /\ boot.seed = 1
  /\ svc.size = 1025
  /\ At(img_file, 12) # 0
  /\ At(img_file, 512 + 1024) # 0
  /\ At(img_file, 512 + 1025) = 0

\* C6: in every successful build with test mode, the image byte at offset
\* 512 + i is i mod 256 for every i in [0, total_size - 512).
C6_TestPattern ==
  /\ (test /\ pc \in {"fopen", "fwrite", "fclose", "done", "crashed"}) =>
       \A i \in 0..(disk_size - 512 - 1) : At(disk, 512 + i) = i % 256
  /\ (CompleteBuild /\ test) =>
       \A i \in 0..(Len(img_file) - 512 - 1) : At(img_file, 512 + i) = i % 256

C6_Witness ==
  /\ CompleteBuild
  /\ test
  /\ Len(img_file) = 2048
  /\ At(img_file, 512 + 300) = 44
  /\ At(img_file, 2047) = 255

\* the two input files are as the build expects them: a 512-byte boot
\* sector and an ELF service binary
GoodInputs ==
  /\ boot.exists /\ boot.size = 512
  /\ svc.exists /\ svc.kind \in {"elf32", "elf64"}

\* C7: the writer fails when the output file cannot be opened or when
\* fwrite writes fewer bytes than the buffer holds: such a build does not
\* end as a success.
C7_WriteErrorsReported ==
  (GoodInputs /\ read_boot = stat_boot /\ read_binary = stat_binary) =>
    /\ (image = "null") => pc # "done"
    /\ (wrote # -1 /\ wrote < disk_size) => pc # "done"

\* C8: no partial read is accepted as success: a build ends as a success
\* only if, for each of the two files, the number of bytes read is the
\* file's size.
C8_NoPartialRead ==
  (GoodInputs /\ pc = "done") =>
    /\ read_boot = stat_boot
    /\ read_binary = stat_binary

\* C9: with only the service binary given (argc = 2) the build goes on,
\* with the default bootloader path, and is not refused as a usage error.
C9_BootloaderOptional ==
  (GoodInputs /\ args.argc = 2 /\ pc # "main") =>
    /\ ~(pc = "exited" /\ rc = "EXIT_FAILURE")
    /\ bootloader_path =
         get_bootloader_path(2, "argv[2]", args.install, "HOME")

\* C10: an ELF32 service binary with a .multiboot section passes the
\* multiboot validation and reaches the patch and write steps exactly when
\* the header's magic is 0x1BADB002 and magic + flags + checksum is 0 modulo
\* 2^32; an ELF64 service binary is not checked for a multiboot header and
\* always goes on.
C10_MultibootValidation ==
  (found # "nothing" /\ read_binary = stat_binary) =>
    /\ (svc.kind = "elf32" /\ svc.hasMB) =>
         /\ (found = "ELF32" /\ WritePhase) <=> MbValid(MbTable[svc.mb])
         /\ MbTable[svc.mb].magic # <<45058, 7085>> => found = "multiboot magic"
    /\ (svc.kind = "elf64") => (found = "ELF64" /\ WritePhase)

C10_Witness ==
  /\ svc.kind = "elf32" /\ svc.hasMB
  /\ svc.mb = 3
  /\ read_binary = stat_binary
  /\ found = "ELF32"
  /\ pc = "done"

====
